---- MODULE Spec2Model ----
(***************************************************************************)
(* A model of scimterface: the Flask route scim_endpoint of app.py with    *)
(* its module loader and method dispatch, the SCIMSystem contract of       *)
(* scim_system.py, and the schema helpers of scim_utilities.py.            *)
(*                                                                         *)
(* Python strings that the code inspects character by character (HTTP      *)
(* methods, endpoint segments, attribute and member names) are sequences   *)
(* of one-character strings, so that str.lower(), str.strip("/") and the   *)
(* name ordering of inspect.getmembers are computed, not assumed.          *)
(***************************************************************************)
EXTENDS Integers, Sequences, FiniteSets, TLC

\* ------------------------------------------------------------------------
\* Bounds of the model
\* ------------------------------------------------------------------------
\* exec_module calls followed per process before the model stops loading
MaxLoads == 2
\* longest resource list handed to create_base_list_response
MaxResources == 4

\* ------------------------------------------------------------------------
\* Python str operations
\* ------------------------------------------------------------------------
\* The characters used by the model, in code-point order
Alphabet ==
    << ".", "/",
       "A", "B", "C", "D", "E", "F", "G", "H", "I", "J", "K", "L", "M",
       "N", "O", "P", "Q", "R", "S", "T", "U", "V", "W", "X", "Y", "Z",
       "_",
       "a", "b", "c", "d", "e", "f", "g", "h", "i", "j", "k", "l", "m",
       "n", "o", "p", "q", "r", "s", "t", "u", "v", "w", "x", "y", "z" >>

\* ord(): the position of a character in that order
OrdTable ==
    [c \in {Alphabet[i] : i \in 1..Len(Alphabet)} |->
        CHOOSE i \in 1..Len(Alphabet) : Alphabet[i] = c]

Ord(c) == OrdTable[c]

IsUpper(c) == Ord(c) >= Ord("A") /\ Ord(c) <= Ord("Z")

LowerChar(c) == IF IsUpper(c) THEN Alphabet[Ord(c) - Ord("A") + Ord("a")] ELSE c

\* str.lower()
StrLower(s) == [i \in 1..Len(s) |-> LowerChar(s[i])]

RECURSIVE LStrip(_, _)
LStrip(s, c) == IF s # <<>> /\ Head(s) = c THEN LStrip(Tail(s), c) ELSE s

RECURSIVE RStrip(_, _)
RStrip(s, c) ==
    IF s # <<>> /\ s[Len(s)] = c THEN RStrip(SubSeq(s, 1, Len(s) - 1), c) ELSE s

\* str.strip(c) for a one-character argument
StrStrip(s, c) == RStrip(LStrip(s, c), c)

\* s < t in Python's string ordering
RECURSIVE StrLess(_, _)
StrLess(s, t) ==
    IF t = <<>> THEN FALSE
    ELSE IF s = <<>> THEN TRUE
    ELSE IF Head(s) # Head(t) THEN Ord(Head(s)) < Ord(Head(t))
    ELSE StrLess(Tail(s), Tail(t))

\* sorted(): the sequence of the elements of a set of records, by their name
RECURSIVE SortByName(_)
SortByName(S) ==
    IF S = {} THEN <<>>
    ELSE LET m == CHOOSE x \in S : \A y \in S \ {x} : StrLess(x.name, y.name)
         IN  <<m>> \o SortByName(S \ {m})

\* ------------------------------------------------------------------------
\* scim_system.py: the SCIMSystem contract
\* ------------------------------------------------------------------------
\* The methods SCIMSystem declares, every one of them under @abstractmethod
SCIMSystemMethods ==
    {  <<"g","e","t","_","u","s","e","r","s">>,
       <<"p","o","s","t","_","u","s","e","r","s">>,
       <<"p","u","t","_","u","s","e","r","s">>,
       <<"p","a","t","c","h","_","u","s","e","r","s">>,
       <<"d","e","l","e","t","e","_","u","s","e","r","s">>,
       <<"g","e","t","_","g","r","o","u","p","s">>,
       <<"p","o","s","t","_","g","r","o","u","p","s">>,
       <<"p","u","t","_","g","r","o","u","p","s">>,
       <<"p","a","t","c","h","_","g","r","o","u","p","s">>,
       <<"d","e","l","e","t","e","_","g","r","o","u","p","s">>,
       <<"g","e","t","_","m","e">>,
       <<"p","o","s","t","_","m","e">>,
       <<"p","u","t","_","m","e">>,
       <<"p","a","t","c","h","_","m","e">>,
       <<"d","e","l","e","t","e","_","m","e">>,
       <<"g","e","t","_","s","e","r","v","i","c","e","_","p","r","o","v","i","d","e","r","_","c","o","n","f","i","g">>,
       <<"g","e","t","_","r","e","s","o","u","r","c","e","_","t","y","p","e","s">>,
       <<"g","e","t","_","s","c","h","e","m","a","s">>,
       <<"p","o","s","t","_","b","u","l","k">>,
       <<"p","o","s","t","_","s","e","a","r","c","h">> }

get_users == <<"g","e","t","_","u","s","e","r","s">>
get_groups == <<"g","e","t","_","g","r","o","u","p","s">>
get_me == <<"g","e","t","_","m","e">>
get_schemas == <<"g","e","t","_","s","c","h","e","m","a","s">>
delete_groups == <<"d","e","l","e","t","e","_","g","r","o","u","p","s">>

\* A class object: its name, whether issubclass(obj, SCIMSystem) holds, and
\* the methods its own body defines with what each does when called
\* ("payload": returns its payload; otherwise the exception it raises).
Class(name, scim, body) ==
    [kind |-> "class", name |-> name, scim |-> scim, body |-> body]

\* A module member that is not a class (an imported module, a function, a
\* dunder attribute)
NonClass(name) ==
    [kind |-> "other", name |-> name, scim |-> FALSE, body |-> <<>>]

\* What a function returns when it returns nothing, and the value None
None == NonClass(<<"N","o","n","e">>)

\* class SCIMSystem(ABC) itself: it overrides nothing
SCIMSystem == Class(<<"S","C","I","M","S","y","s","t","e","m">>, TRUE, <<>>)

\* __abstractmethods__ of a class: the abstract methods of SCIMSystem that
\* the class body does not define
AbstractMethods(cls) ==
    IF cls.scim THEN SCIMSystemMethods \ DOMAIN cls.body ELSE {}

\* The body of every SCIMSystem method: raise NotImplementedError(...)
SCIMSystemDefault(key) == "NotImplementedError"

\* ------------------------------------------------------------------------
\* The units of ./systems
\* ------------------------------------------------------------------------
Only(key) == [k \in {key} |-> "payload"]

\* A backend body defining all twenty operations: get_groups and
\* delete_groups decline with NotImplementedError, the body of get_me fails
\* with AttributeError and that of get_schemas with KeyError
AllBodies ==
    [k \in SCIMSystemMethods |->
        IF k = get_groups \/ k = delete_groups THEN "NotImplementedError"
        ELSE IF k = get_me THEN "AttributeError"
        ELSE IF k = get_schemas THEN "KeyError"
        ELSE "payload"]

mod_json == NonClass(<<"j","s","o","n">>)
dunder_name == NonClass(<<"_","_","n","a","m","e","_","_">>)

\* The unit of each file of ./systems: what exec_module raises ("none" when
\* the module body runs to its end) and the members the module then has.
\*   example    systems/example.py: its "import scim_utilities" raises
\*              TypeError (the annotation Dict[Any] of
\*              create_base_list_response is rejected by typing when the
\*              def runs, and User(user_name="bob") could not be built
\*              either, User being abstract), so the module body stops
\*              before class Example is defined
\*   scim_utilities   systems/scim_utilities.py: stops at the same
\*              annotation, after class ListResponse
\*   partial    what example.py sets out to be: one class that defines
\*              get_users and nothing else
\*   full       one class defining all twenty operations
\*   nocls      no class at all
\*   plain      one class that is no SCIMSystem, SCIMSystem not imported
\*   two        two classes defining all twenty operations
\*   zeta       as full, the class named after "SCIMSystem" in name order
Unit(system_name) ==
    CASE system_name = "example" ->
            [raises |-> "TypeError",
             members |-> {dunder_name, mod_json, SCIMSystem}]
      [] system_name = "scim_utilities" ->
            [raises |-> "TypeError",
             members |-> {dunder_name,
                          Class(<<"L","i","s","t","R","e","s","p","o","n","s","e">>,
                                FALSE, <<>>)}]
      [] system_name = "partial" ->
            [raises |-> "none",
             members |-> {dunder_name, SCIMSystem,
                          Class(<<"P","a","r","t","i","a","l">>, TRUE,
                                Only(get_users))}]
      [] system_name = "full" ->
            [raises |-> "none",
             members |-> {dunder_name, SCIMSystem,
                          Class(<<"F","u","l","l">>, TRUE, AllBodies)}]
      [] system_name = "nocls" ->
            [raises |-> "none",
             members |-> {dunder_name, NonClass(<<"h","e","l","p","e","r">>)}]
      [] system_name = "plain" ->
            [raises |-> "none",
             members |-> {dunder_name,
                          Class(<<"H","e","l","p","e","r">>, FALSE, <<>>)}]
      [] system_name = "two" ->
            [raises |-> "none",
             members |-> {dunder_name, SCIMSystem,
                          Class(<<"A","l","p","h","a">>, TRUE, AllBodies),
                          Class(<<"B","e","t","a">>, TRUE, AllBodies)}]
      [] system_name = "zeta" ->
            [raises |-> "none",
             members |-> {dunder_name, SCIMSystem,
                          Class(<<"Z","e","t","a">>, TRUE, AllBodies)}]
      [] OTHER ->
            \* no such file: the loader cannot read the source
            [raises |-> "FileNotFoundError", members |-> {dunder_name}]

\* get_system_files / Path(f).stem: the names of the files ./systems/*.py
get_system_files ==
    {"example", "scim_utilities", "partial", "full", "nocls", "plain",
     "two", "zeta"}

\* The classes of a unit that satisfy the contract: subclasses of SCIMSystem
\* that the unit defines (SCIMSystem itself is imported, not defined)
Conforming(system_name) ==
    {m \in Unit(system_name).members :
        m.kind = "class" /\ m.scim /\ m # SCIMSystem}

\* ------------------------------------------------------------------------
\* app.py: loading a unit and finding its class
\* ------------------------------------------------------------------------
\* The registry sys.modules, restricted to the entries "systems.<name>":
\* "absent", "partial" (the module object was registered and its body did
\* not run to its end) or "loaded".

\* load_module: registers the module object under "systems.<name>" and then
\* runs its body, every time it is called; an exception of the body leaves
\* the entry in place.  Yields the registry afterwards and what was raised.
load_module(mods, system_name) ==
    LET raises == Unit(system_name).raises
    IN  [sys_modules |->
             [n \in DOMAIN mods \cup {system_name} |->
                 IF n # system_name THEN mods[n]
                 ELSE IF raises = "none" THEN "loaded" ELSE "partial"],
         raised |-> raises]

\* inspect.getmembers(module): the members sorted by name
getmembers(members) == SortByName(members)

\* The for loop of get_system_subclass over the sorted members: non-classes
\* are skipped; the first class is returned when it is a subclass of
\* SCIMSystem and SystemSubclassMissing is raised when it is not; a loop
\* that ends returns None.
RECURSIVE ScanMembers(_)
ScanMembers(seq) ==
    IF seq = <<>> THEN [raised |-> "none", value |-> None]
    ELSE IF Head(seq).kind # "class" THEN ScanMembers(Tail(seq))
    ELSE IF Head(seq).scim THEN [raised |-> "none", value |-> Head(seq)]
    ELSE [raised |-> "SystemSubclassMissing", value |-> None]

get_system_subclass(system_name) ==
    ScanMembers(getmembers(Unit(system_name).members))

\* target_subclass(): calling None, or a class with abstract methods left,
\* raises TypeError
Instantiate(cls) ==
    IF cls.kind # "class" THEN "TypeError"
    ELSE IF AbstractMethods(cls) # {} THEN "TypeError"
    ELSE "none"

\* ------------------------------------------------------------------------
\* app.py: dispatch
\* ------------------------------------------------------------------------
get_lowercase_method(method) == StrLower(method)

get_endpoint_keep_case(endpoint) == StrStrip(endpoint, "/")

get_endpoint(endpoint) == StrLower(StrStrip(endpoint, "/"))

\* f"{method}_{endpoint}"
OperationKey(method, endpoint) ==
    get_lowercase_method(method) \o <<"_">> \o get_endpoint(endpoint)

\* The payload an operation of a class returns
Payload(cls, key) == [cls |-> cls.name, op |-> key]

NoBody == [cls |-> <<>>, op |-> <<>>]

\* hasattr(instance, key), for the keys f"{method}_{endpoint}" can take
HasAttr(cls, key) ==
    key \in DOMAIN cls.body \/ (cls.scim /\ key \in SCIMSystemMethods)

\* call_method_and_endpoint_on_obj: getattr raises AttributeError for a key
\* the instance has no attribute for; the method found is called, and it is
\* the class's own when the class defines it, SCIMSystem's otherwise.
call_method_and_endpoint_on_obj(method, endpoint, cls) ==
    LET key == OperationKey(method, endpoint)
        does == IF key \in DOMAIN cls.body THEN cls.body[key]
                ELSE SCIMSystemDefault(key)
    IN  IF ~HasAttr(cls, key)
        THEN [raised |-> "AttributeError", value |-> NoBody, called |-> <<>>]
        ELSE IF does = "payload"
        THEN [raised |-> "none", value |-> Payload(cls, key), called |-> key]
        ELSE [raised |-> does, value |-> NoBody, called |-> key]

\* The check left out: every name passes
check_system_name_skipped(system_name) == 200

\* check_system_name_exists: abort(404) unless the name is a file stem
check_system_name_exists(system_name) ==
    IF system_name \notin get_system_files THEN 404 ELSE 200

\* What Flask answers for a view that raised: abort(404) is 404, any other
\* exception is 500
Response(mods, status, body, fault, execd, inst, called) ==
    [sys_modules |-> mods, status |-> status, body |-> body, fault |-> fault,
     execd |-> execd, inst |-> inst, called |-> called]

\* The view scim_endpoint, from its first statement to its response
scim_endpoint(mods, system_name, method, endpoint) ==
    IF check_system_name_exists(system_name) = 404
    THEN Response(mods, 404, NoBody, "none", FALSE, None, <<>>)
    ELSE
    LET loaded == load_module(mods, system_name)
        found  == get_system_subclass(system_name)
        target_subclass == found.value
        called == call_method_and_endpoint_on_obj(method, endpoint,
                                                  target_subclass)
    IN  IF loaded.raised # "none"
        THEN Response(loaded.sys_modules, 500, NoBody, loaded.raised,
                      TRUE, None, <<>>)
        ELSE IF found.raised # "none"
        THEN Response(loaded.sys_modules, 500, NoBody, found.raised,
                      TRUE, None, <<>>)
        ELSE IF Instantiate(target_subclass) # "none"
        THEN Response(loaded.sys_modules, 500, NoBody,
                      Instantiate(target_subclass), TRUE, None, <<>>)
        ELSE IF called.raised = "AttributeError"
        THEN Response(loaded.sys_modules, 404, NoBody, "none",
                      TRUE, target_subclass, called.called)
        ELSE IF called.raised # "none"
        THEN Response(loaded.sys_modules, 500, NoBody, called.raised,
                      TRUE, target_subclass, called.called)
        ELSE Response(loaded.sys_modules, 200, called.value, "none",
                      TRUE, target_subclass, called.called)

\* @app.route("/<string:system_name>/<string:endpoint>") names no methods:
\* Flask then routes GET, and adds HEAD and OPTIONS
route_methods ==
    {<<"G","E","T">>, <<"H","E","A","D">>, <<"O","P","T","I","O","N","S">>}

\* The string converter of the rule matches a non-empty segment without "/"
RuleMatches(endpoint) ==
    endpoint # <<>> /\ \A i \in 1..Len(endpoint) : endpoint[i] # "/"

\* One HTTP request to the app: a path the rule does not match is 404, a
\* method the rule does not route is 405, OPTIONS is answered by Flask
\* itself, and GET and HEAD run the view.
Serve(mods, system_name, method, endpoint) ==
    IF ~RuleMatches(endpoint)
    THEN Response(mods, 404, NoBody, "none", FALSE, None, <<>>)
    ELSE IF method \notin route_methods
    THEN Response(mods, 405, NoBody, "none", FALSE, None, <<>>)
    ELSE IF method = <<"O","P","T","I","O","N","S">>
    THEN Response(mods, 200, NoBody, "none", FALSE, None, <<>>)
    ELSE scim_endpoint(mods, system_name, method, endpoint)

\* ------------------------------------------------------------------------
\* scim_utilities.py: SchemaAttribute
\* ------------------------------------------------------------------------
\* A Python argument that is None or a list
PyNone == [none |-> TRUE, items |-> <<>>]
PyList(items) == [none |-> FALSE, items |-> items]

\* class AttributeType(Enum)
AttributeType ==
    {"string", "boolean", "decimal", "integer", "dateTime", "reference",
     "complex"}

\* _warn_on_complex_type_missing_sub_attributes: whether warn() is called
\* (self.type == AttributeType.COMPLEX and self.sub_attributes == None)
warn_on_complex_type_missing_sub_attributes(type, sub_attributes) ==
    type = "complex" /\ sub_attributes.none

\* The check with its type test inverted
throw_exception_on_complex_type(type, sub_attributes) ==
    type = "complex" /\ ~sub_attributes.none

\* _throw_exception_on_sub_attributes_but_not_complex_type: whether
\* SCIMViolation is raised
\* (self.type != AttributeType.COMPLEX and self.sub_attributes != None)
throw_exception_on_sub_attributes_but_not_complex_type(type, sub_attributes) ==
    type # "complex" /\ ~sub_attributes.none

\* SchemaAttribute.__init__: the fields are assigned, the warning is given,
\* then the exception is raised; an __init__ that raises yields no object.
SchemaAttribute(name, type, sub_attributes) ==
    LET warned == warn_on_complex_type_missing_sub_attributes(
                      type, sub_attributes)
        thrown == throw_exception_on_sub_attributes_but_not_complex_type(
                      type, sub_attributes)
    IN  [raised |-> IF thrown THEN "SCIMViolation" ELSE "none",
         warned |-> warned,
         made   |-> ~thrown,
         obj    |-> IF thrown THEN [name |-> "", type |-> "",
                                    sub_attributes |-> PyNone]
                    ELSE [name |-> name, type |-> type,
                          sub_attributes |-> sub_attributes]]

\* ------------------------------------------------------------------------
\* scim_utilities.py: User
\* ------------------------------------------------------------------------
\* The keyword-only parameters of User.__init__; only user_name has no
\* default
UserParams ==
    {"user_name", "formatted", "family_name", "given_name", "middle_name",
     "honorific_prefix", "honorific_suffix", "display_name", "nick_name",
     "profile_url", "title", "userType", "preferred_language", "locale",
     "timezone", "active", "password", "emails", "phone_numbers", "ims",
     "photos", "addresses", "groups", "entitlements", "roles",
     "x509_certificates"}

UserRequired == {"user_name"}

\* The attributes the classes User, Schema and SCIMSchema define
UserAttrs == {"__init__", "_SCHEMA_ATTRIBUTES", "dumps"}

\* SCIMSchema.dumps is an @abstractmethod that neither Schema nor User
\* defines
UserAbstractMethods == {"dumps"}

\* User(**kwargs): TypeError for a class with abstract methods left, for a
\* keyword __init__ does not take, and for a required keyword left out
User(kwargs) ==
    IF UserAbstractMethods # {} THEN "TypeError"
    ELSE IF ~(DOMAIN kwargs \subseteq UserParams) THEN "TypeError"
    ELSE IF ~(UserRequired \subseteq DOMAIN kwargs) THEN "TypeError"
    ELSE "none"

\* user.json_encode(): the lookup of an attribute no class of User defines
\* raises AttributeError
test_user_json_encode(kwargs) ==
    IF User(kwargs) # "none"
    THEN [raised |-> User(kwargs), kwargs |-> kwargs]
    ELSE IF "json_encode" \notin UserAttrs
    THEN [raised |-> "AttributeError", kwargs |-> kwargs]
    ELSE [raised |-> "none", kwargs |-> kwargs]

\* ------------------------------------------------------------------------
\* scim_utilities.py: Schema, the schema of schemas
\* ------------------------------------------------------------------------
\* An entry of _SCHEMA_ATTRIBUTES: its name, type, canonical values and
\* sub-attributes
Attr(name, type, canonical_values, sub_attributes) ==
    [name |-> name, type |-> type, canonical_values |-> canonical_values,
     sub_attributes |-> sub_attributes]

\* The eleven fields of an attribute, as the two levels of the tree list them
AttributeFields ==
    << Attr("name", "string", <<>>, <<>>),
       Attr("type", "string",
            <<"string", "complex", "boolean", "decimal", "integer",
              "dateTime", "reference">>, <<>>),
       Attr("multiValued", "boolean", <<>>, <<>>),
       Attr("description", "string", <<>>, <<>>),
       Attr("required", "boolean", <<>>, <<>>),
       Attr("canonicalValues", "string", <<>>, <<>>),
       Attr("caseExact", "boolean", <<>>, <<>>),
       Attr("mutability", "string",
            <<"readOnly", "readWrite", "immutable", "writeOnly">>, <<>>),
       Attr("returned", "string",
            <<"always", "never", "default", "request">>, <<>>),
       Attr("uniqueness", "string", <<"none", "server", "global">>, <<>>),
       Attr("referenceTypes", "string", <<>>, <<>>) >>

\* Schema._SCHEMA_ATTRIBUTES
SCHEMA_ATTRIBUTES ==
    << Attr("id", "string", <<>>, <<>>),
       Attr("name", "string", <<>>, <<>>),
       Attr("description", "string", <<>>, <<>>),
       Attr("attributes", "complex", <<>>,
            AttributeFields \o
            << Attr("subAttributes", "complex", <<>>, AttributeFields) >>) >>

\* The abstract methods left in Schema: SCIMSchema.dumps is an
\* @abstractmethod and Schema does not define dumps
SchemaAbstractMethods == {"dumps"}

\* Schema(): TypeError for a class with abstract methods left
Schema ==
    IF SchemaAbstractMethods # {} THEN "TypeError" ELSE "none"

\* SCIMSchema.dumps, the only dumps there is: its body is "pass", so a call
\* would return None and no attribute
dumps(attributes) == <<>>

\* schema = Schema(); schema.dumps()
schema_dumps ==
    IF Schema # "none"
    THEN [raised |-> Schema, made |-> FALSE, dumped |-> <<>>]
    ELSE [raised |-> "none", made |-> TRUE,
          dumped |-> dumps(SCHEMA_ATTRIBUTES)]

\* ------------------------------------------------------------------------
\* scim_utilities.py and systems/scim_utilities.py: the list response
\* ------------------------------------------------------------------------
ListResponseURN == "urn:ietf:params:scim:api:messages:2.0:ListResponse"

\* The envelope counting the last index instead of the length
create_base_list_response_off_by_one(resources) ==
    [schemas |-> <<ListResponseURN>>,
     totalResults |-> IF resources = <<>> THEN 0 ELSE Len(resources) - 1,
     Resources |-> resources]

create_base_list_response(resources) ==
    [schemas |-> <<ListResponseURN>>,
     totalResults |-> Len(resources),
     Resources |-> resources]

\* The copy of the function in systems/scim_utilities.py
systems_create_base_list_response(resources) ==
    [schemas |-> <<ListResponseURN>>,
     totalResults |-> Len(resources),
     Resources |-> resources]

\* ------------------------------------------------------------------------
\* The process: its registry, and the last operation with its outcome
\* ------------------------------------------------------------------------
VARIABLES
    sys_modules,   \* name -> "absent" | "partial" | "loaded"
    exec_count,    \* name -> number of times the unit's body was run
    last,          \* the last operation: its arguments and its outcome
    threads,       \* request thread -> where it is in scim_endpoint
    owner          \* name -> the thread whose module object sys.modules
                   \* holds under "systems.<name>", 0 when there is none

vars == <<sys_modules, exec_count, last, threads, owner>>

\* The request threads of the server (Flask serves each request in a thread
\* of its own)
Threads == {1, 2}

\* A thread that has not been handed a request
Idle ==
    [pc |-> "idle", system_name |-> "", stage |-> "none",
     read |-> [of |-> 0, stage |-> "none"], target |-> None,
     status |-> 0, fault |-> "none"]

\* Inputs
SystemNames == get_system_files \cup {"ghost"}

Methods ==
    {<<"G","E","T">>, <<"P","O","S","T">>, <<"D","E","L","E","T","E">>,
     <<"H","E","A","D">>, <<"O","P","T","I","O","N","S">>}

Endpoints ==
    {<<"U","s","e","r","s">>, <<"G","r","o","u","p","s">>, <<"M","e">>,
     <<"N","o","p","e">>, <<"U","s","e","r","s","/">>}

SubAttributeInputs ==
    {PyNone, PyList(<<>>), PyList(<<"value">>), PyList(<<"value", "display">>),
     PyList(<<"display">>), PyList(<<"value", "display", "type">>)}

KwargInputs ==
    {[k \in {"id", "user_name"} |-> "test@test.com"],
     [k \in {"user_name"} |-> "bob"],
     [k \in {"user_name", "display_name"} |-> "bob"],
     [k \in {"id"} |-> "bob"]}

ResourceInputs ==
    UNION {[1..n -> {"bob", "alice"}] : n \in 0..MaxResources}

RECURSIVE Total(_, _)
Total(f, S) ==
    IF S = {} THEN 0
    ELSE LET x == CHOOSE y \in S : TRUE IN f[x] + Total(f, S \ {x})

Loads == Total(exec_count, DOMAIN exec_count)

Init ==
    /\ sys_modules = [n \in get_system_files |-> "absent"]
    /\ exec_count = [n \in get_system_files |-> 0]
    /\ last = [op |-> "start"]
    /\ threads = [t \in Threads |-> Idle]
    /\ owner = [n \in get_system_files |-> 0]

\* One HTTP request, served from its arrival to its response
Request(system_name, method, endpoint) ==
    \E r \in {Serve(sys_modules, system_name, method, endpoint)} :
        /\ r.execd => Loads < MaxLoads
        /\ sys_modules' = r.sys_modules
        /\ exec_count' =
               IF r.execd
               THEN [n \in DOMAIN exec_count \cup {system_name} |->
                        IF n # system_name THEN exec_count[n]
                        ELSE IF n \in DOMAIN exec_count
                        THEN exec_count[n] + 1 ELSE 1]
               ELSE exec_count
        /\ last' = [op |-> "request", system_name |-> system_name,
                    method |-> method, endpoint |-> endpoint,
                    status |-> r.status, body |-> r.body, fault |-> r.fault,
                    execd |-> r.execd, inst |-> r.inst, called |-> r.called]
        /\ UNCHANGED <<threads, owner>>

\* SchemaAttribute(name=..., type=..., sub_attributes=...)
NewSchemaAttribute(type, sub_attributes) ==
    /\ last' = [op |-> "SchemaAttribute", type |-> type,
                sub_attributes |-> sub_attributes,
                result |-> SchemaAttribute("attr", type, sub_attributes)]
    /\ UNCHANGED <<sys_modules, exec_count, threads, owner>>

\* scim_utilities_test.py: user = User(**kwargs); user.json_encode()
TestUserJsonEncode(kwargs) ==
    /\ last' = [op |-> "json_encode", kwargs |-> kwargs,
                result |-> test_user_json_encode(kwargs)]
    /\ UNCHANGED <<sys_modules, exec_count, threads, owner>>

\* ListResponse(resources), with the function of either file
NewListResponse(resources) ==
    /\ last' = [op |-> "ListResponse", resources |-> resources,
                list_response |-> create_base_list_response(resources)]
    /\ UNCHANGED <<sys_modules, exec_count, threads, owner>>

NewSystemsListResponse(resources) ==
    /\ last' = [op |-> "systems.ListResponse", resources |-> resources,
                list_response |->
                    systems_create_base_list_response(resources)]
    /\ UNCHANGED <<sys_modules, exec_count, threads, owner>>

\* Schema().dumps()
NewSchemaDumps ==
    /\ last' = [op |-> "Schema.dumps", result |-> schema_dumps]
    /\ UNCHANGED <<sys_modules, exec_count, threads, owner>>

\* The app serving requests
Next ==
    \E n \in SystemNames, m \in Methods, e \in Endpoints : Request(n, m, e)

Spec == Init /\ [][Next]_vars

\* The helpers of scim_utilities.py, called on their own
NextUtilities ==
    \/ \E t \in AttributeType, s \in SubAttributeInputs :
           NewSchemaAttribute(t, s)
    \/ \E k \in KwargInputs : TestUserJsonEncode(k)
    \/ \E r \in ResourceInputs : NewListResponse(r)
    \/ \E r \in ResourceInputs : NewSystemsListResponse(r)
    \/ NewSchemaDumps

SpecUtilities == Init /\ [][NextUtilities]_vars

\* ------------------------------------------------------------------------
\* Dispatch on its own: call_method_and_endpoint_on_obj on an instance
\* ------------------------------------------------------------------------
Row(verb, endpoint, method) ==
    [verb |-> verb, endpoint |-> endpoint, method |-> method]

\* The table of scim_system.py: the verb and endpoint each method's
\* docstring names, and the name of the method
ContractTable ==
    {
       Row(<<"G","E","T">>,
           <<"/","U","s","e","r","s">>,
           <<"g","e","t","_","u","s","e","r","s">>),
       Row(<<"P","O","S","T">>,
           <<"/","U","s","e","r","s">>,
           <<"p","o","s","t","_","u","s","e","r","s">>),
       Row(<<"P","U","T">>,
           <<"/","U","s","e","r","s">>,
           <<"p","u","t","_","u","s","e","r","s">>),
       Row(<<"P","A","T","C","H">>,
           <<"/","U","s","e","r","s">>,
           <<"p","a","t","c","h","_","u","s","e","r","s">>),
       Row(<<"D","E","L","E","T","E">>,
           <<"/","U","s","e","r","s">>,
           <<"d","e","l","e","t","e","_","u","s","e","r","s">>),
       Row(<<"G","E","T">>,
           <<"/","G","r","o","u","p","s">>,
           <<"g","e","t","_","g","r","o","u","p","s">>),
       Row(<<"P","O","S","T">>,
           <<"/","G","r","o","u","p","s">>,
           <<"p","o","s","t","_","g","r","o","u","p","s">>),
       Row(<<"P","U","T">>,
           <<"/","G","r","o","u","p","s">>,
           <<"p","u","t","_","g","r","o","u","p","s">>),
       Row(<<"P","A","T","C","H">>,
           <<"/","G","r","o","u","p","s">>,
           <<"p","a","t","c","h","_","g","r","o","u","p","s">>),
       Row(<<"D","E","L","E","T","E">>,
           <<"/","G","r","o","u","p","s">>,
           <<"d","e","l","e","t","e","_","g","r","o","u","p","s">>),
       Row(<<"G","E","T">>,
           <<"/","M","e">>,
           <<"g","e","t","_","m","e">>),
       Row(<<"P","O","S","T">>,
           <<"/","M","e">>,
           <<"p","o","s","t","_","m","e">>),
       Row(<<"P","U","T">>,
           <<"/","M","e">>,
           <<"p","u","t","_","m","e">>),
       Row(<<"P","A","T","C","H">>,
           <<"/","M","e">>,
           <<"p","a","t","c","h","_","m","e">>),
       Row(<<"D","E","L","E","T","E">>,
           <<"/","M","e">>,
           <<"d","e","l","e","t","e","_","m","e">>),
       Row(<<"G","E","T">>,
           <<"/","S","e","r","v","i","c","e","P","r","o","v","i","d","e","r","C","o","n","f","i","g">>,
           <<"g","e","t","_","s","e","r","v","i","c","e","_","p","r","o","v","i","d","e","r","_","c","o","n","f","i","g">>),
       Row(<<"G","E","T">>,
           <<"/","R","e","s","o","u","r","c","e","T","y","p","e","s">>,
           <<"g","e","t","_","r","e","s","o","u","r","c","e","_","t","y","p","e","s">>),
       Row(<<"G","E","T">>,
           <<"/","S","c","h","e","m","a","s">>,
           <<"g","e","t","_","s","c","h","e","m","a","s">>),
       Row(<<"P","O","S","T">>,
           <<"/","B","u","l","k">>,
           <<"p","o","s","t","_","b","u","l","k">>),
       Row(<<"P","O","S","T">>,
           <<"/",".","s","e","a","r","c","h">>,
           <<"p","o","s","t","_","s","e","a","r","c","h">>) }

\* The backend objects that exist to dispatch on: instances of the classes
\* of the units that can be constructed
DispatchInstances ==
    {c \in Conforming("full") : Instantiate(c) = "none"}

DispatchMethods ==
    {<<"G","E","T">>,
     <<"g","e","t">>,
     <<"G","e","t">>,
     <<"P","O","S","T">>,
     <<"P","U","T">>,
     <<"P","A","T","C","H">>,
     <<"D","E","L","E","T","E">>}

DispatchEndpoints ==
    {<<"/","U","s","e","r","s">>,
     <<"/","G","r","o","u","p","s">>,
     <<"/","M","e">>,
     <<"/","S","e","r","v","i","c","e","P","r","o","v","i","d","e","r","C","o","n","f","i","g">>,
     <<"/","R","e","s","o","u","r","c","e","T","y","p","e","s">>,
     <<"/","S","c","h","e","m","a","s">>,
     <<"/","B","u","l","k">>,
     <<"/",".","s","e","a","r","c","h">>,
     <<"U","s","e","r","s">>,
     <<"u","s","e","r","s">>,
     <<"/","/","U","S","E","R","S","/">>,
     <<"U","s","e","r","s","/">>,
     <<"N","o","p","e">>}

\* call_method_and_endpoint_on_obj(method, endpoint, inst); the call before
\* it is kept for comparison
Dispatch(method, endpoint, cls) ==
    /\ last' = [op |-> "dispatch", method |-> method, endpoint |-> endpoint,
                cls |-> cls.name,
                key |-> OperationKey(method, endpoint),
                result |-> call_method_and_endpoint_on_obj(method, endpoint,
                                                           cls),
                prev |-> IF last.op = "dispatch"
                         THEN [seen |-> TRUE, method |-> last.method,
                               endpoint |-> last.endpoint, key |-> last.key,
                               result |-> last.result]
                         ELSE [seen |-> FALSE]]
    /\ UNCHANGED <<sys_modules, exec_count, threads, owner>>

NextDispatch ==
    \E m \in DispatchMethods, e \in DispatchEndpoints,
       c \in DispatchInstances : Dispatch(m, e, c)

SpecDispatch == Init /\ [][NextDispatch]_vars

\* ------------------------------------------------------------------------
\* scim_endpoint in two request threads, statement by statement
\* ------------------------------------------------------------------------
\* The names the concurrent requests ask for
ConcurrentNames == {"full", "example", "ghost"}

\* The members a module object of a unit has while its body runs: none but
\* the ones module_from_spec sets before the body starts ("empty"), the
\* imported names once the import statements at the top have run
\* ("imports"), and all of them once the body has ended, by its last
\* statement ("complete") or by an exception ("failed")
ModuleMembers(system_name, stage) ==
    IF stage = "empty" THEN {dunder_name}
    ELSE IF stage = "imports"
    THEN {m \in Unit(system_name).members :
             m.kind # "class" \/ m = SCIMSystem}
    ELSE Unit(system_name).members

\* sys.modules as the threads leave it: the state of the module object
\* each name is bound to
Registry(own, thr) ==
    [n \in DOMAIN own |->
        IF own[n] = 0 THEN "absent"
        ELSE IF thr[own[n]].stage = "complete" THEN "loaded"
        ELSE "partial"]

\* The thread t becomes what with its fields changed
Step(t, what) ==
    /\ threads' = [threads EXCEPT ![t] = what]
    /\ sys_modules' = Registry(owner', threads')
    /\ UNCHANGED last

\* line 58: check_system_name_exists(system_name), first statement of the
\* view for a request handed to thread t
CheckName(t, system_name) ==
    /\ threads[t].pc = "idle"
    /\ UNCHANGED <<owner, exec_count>>
    /\ Step(t, IF check_system_name_exists(system_name) = 404
               THEN [threads[t] EXCEPT !.pc = "done",
                                       !.system_name = system_name,
                                       !.status = 404]
               ELSE [threads[t] EXCEPT !.pc = "load",
                                       !.system_name = system_name])

\* load_module, lines 28-32: a new module object is made and bound in
\* sys.modules, replacing the one bound before
Register(t) ==
    /\ threads[t].pc = "load"
    /\ owner' = [owner EXCEPT ![threads[t].system_name] = t]
    /\ UNCHANGED exec_count
    /\ Step(t, [threads[t] EXCEPT !.pc = "exec", !.stage = "empty"])

\* load_module, line 33: exec_module starts the body of the unit, which
\* runs its import statements
ExecImports(t) ==
    /\ threads[t].pc = "exec"
    /\ threads[t].stage = "empty"
    /\ exec_count' = [exec_count EXCEPT ![threads[t].system_name] = @ + 1]
    /\ UNCHANGED owner
    /\ Step(t, [threads[t] EXCEPT !.stage = "imports"])

\* load_module, lines 33-34: the rest of the body runs; an exception of the
\* body ends the request, otherwise load_module returns
ExecBody(t) ==
    /\ threads[t].pc = "exec"
    /\ threads[t].stage = "imports"
    /\ UNCHANGED <<owner, exec_count>>
    /\ Step(t, IF Unit(threads[t].system_name).raises # "none"
               THEN [threads[t] EXCEPT
                        !.pc = "done", !.stage = "failed", !.status = 500,
                        !.fault = Unit(threads[t].system_name).raises]
               ELSE [threads[t] EXCEPT !.pc = "find", !.stage = "complete"])

\* get_system_subclass, lines 46-52: reads sys.modules[module_name], the
\* module object bound there now, and scans the members it has now
FindSubclass(t) ==
    /\ threads[t].pc = "find"
    /\ UNCHANGED <<owner, exec_count>>
    /\ \E u \in {owner[threads[t].system_name]} :
       \E found \in {ScanMembers(getmembers(
                         ModuleMembers(threads[t].system_name,
                                       threads[u].stage)))} :
          Step(t, IF found.raised # "none"
                  THEN [threads[t] EXCEPT
                           !.pc = "done", !.status = 500,
                           !.fault = found.raised,
                           !.read = [of |-> u, stage |-> threads[u].stage]]
                  ELSE [threads[t] EXCEPT
                           !.pc = "call", !.target = found.value,
                           !.read = [of |-> u, stage |-> threads[u].stage]])

\* lines 61-65: inst = target_subclass(), then the dispatch of GET /Users
\* and the response
Respond(t) ==
    /\ threads[t].pc = "call"
    /\ UNCHANGED <<owner, exec_count>>
    /\ \E called \in {call_method_and_endpoint_on_obj(
                          <<"G","E","T">>, <<"U","s","e","r","s">>,
                          threads[t].target)} :
          Step(t, IF Instantiate(threads[t].target) # "none"
                  THEN [threads[t] EXCEPT
                           !.pc = "done", !.status = 500,
                           !.fault = Instantiate(threads[t].target)]
                  ELSE IF called.raised = "AttributeError"
                  THEN [threads[t] EXCEPT !.pc = "done", !.status = 404]
                  ELSE IF called.raised # "none"
                  THEN [threads[t] EXCEPT !.pc = "done", !.status = 500,
                                          !.fault = called.raised]
                  ELSE [threads[t] EXCEPT !.pc = "done", !.status = 200])

NextConcurrent ==
    \/ \E t \in Threads, n \in ConcurrentNames : CheckName(t, n)
    \/ \E t \in Threads : Register(t)
    \/ \E t \in Threads : ExecImports(t)
    \/ \E t \in Threads : ExecBody(t)
    \/ \E t \in Threads : FindSubclass(t)
    \/ \E t \in Threads : Respond(t)

SpecConcurrent == Init /\ [][NextConcurrent]_vars

\* ------------------------------------------------------------------------
\* Properties
\* ------------------------------------------------------------------------
GET == <<"G","E","T">>

\* The last operation was a request that the route handed to scim_endpoint
Viewed ==
    /\ last.op = "request"
    /\ RuleMatches(last.endpoint)
    /\ last.method \in route_methods \ {<<"O","P","T","I","O","N","S">>}

\* The operation the last request names
LastKey == OperationKey(last.method, last.endpoint)

\* The units that resolve in the sense of the contract: the body runs to
\* its end and defines one subclass of SCIMSystem
Resolvable ==
    {n \in get_system_files :
        Unit(n).raises = "none" /\ Cardinality(Conforming(n)) = 1}

\* Those of them whose class defines get_users and nothing else
GetUsersOnlyBackends ==
    {n \in Resolvable : \A c \in Conforming(n) : DOMAIN c.body = {get_users}}

\* C1: GET /Users against a backend that overrides get_users and nothing
\* else is answered with the payload of that get_users, unchanged, and no
\* error is raised on the way to the operation.
C1_GetUsersReturnsPayload ==
    (/\ last.op = "request"
     /\ last.system_name \in GetUsersOnlyBackends
     /\ last.method = GET
     /\ LastKey = get_users)
    => /\ last.status = 200
       /\ last.fault = "none"
       /\ last.called = get_users
       /\ last.body.op = get_users

\* C2: an operation of the contract that the resolved backend does not
\* override ends in HTTP 404, never in an unhandled fault.
C2_NotOverriddenIs404 ==
    (/\ last.op = "request"
     /\ last.system_name \in GetUsersOnlyBackends
     /\ LastKey \in SCIMSystemMethods \ {get_users})
    => /\ last.status = 404
       /\ last.fault = "none"

\* C3: a backend class that overrides only some of the operations can be
\* constructed with no arguments when its unit is resolved.
C3_PartialBackendIsConstructed ==
    (/\ Viewed
     /\ last.system_name \in GetUsersOnlyBackends)
    => /\ last.inst.kind = "class"
       /\ last.fault # "TypeError"

\* C4: a request for a name that is not in the catalog ends in HTTP 404,
\* whatever its verb and endpoint.
C4_UnknownNameIs404 ==
    (/\ last.op = "request"
     /\ last.system_name \notin get_system_files)
    => last.status = 404

\* C5: the code unit of a name is executed at most once in a process.
C5_LoadedAtMostOnce ==
    \A n \in get_system_files : exec_count[n] <= 1

\* C6: a unit with no contract class, or with more than one, makes
\* resolution fail with SystemSubclassMissing, and no class is constructed.
C6_ZeroOrManyIsContractViolation ==
    (/\ Viewed
     /\ last.system_name \in get_system_files
     /\ Unit(last.system_name).raises = "none"
     /\ Cardinality(Conforming(last.system_name)) # 1)
    => /\ last.fault = "SystemSubclassMissing"
       /\ last.inst = None

\* C7: constructing a SchemaAttribute of a type other than complex with a
\* non-empty list of sub-attributes raises SCIMViolation and yields no
\* attribute.
C7_SubAttributesNeedComplex ==
    (/\ last.op = "SchemaAttribute"
     /\ last.type # "complex"
     /\ ~last.sub_attributes.none
     /\ last.sub_attributes.items # <<>>)
    => /\ last.result.raised = "SCIMViolation"
       /\ ~last.result.made

C7_Witness ==
    /\ last.op = "SchemaAttribute"
    /\ last.type = "reference"
    /\ ~last.sub_attributes.none
    /\ Len(last.sub_attributes.items) = 2
    /\ last.result.raised = "SCIMViolation"

\* C8: constructing a complex SchemaAttribute whose sub-attributes are None
\* or an empty list succeeds and gives the warning, in both cases.
C8_ComplexWithoutSubAttributesWarns ==
    (/\ last.op = "SchemaAttribute"
     /\ last.type = "complex"
     /\ (last.sub_attributes.none \/ last.sub_attributes.items = <<>>))
    => /\ last.result.made
       /\ last.result.warned

\* C9: a User built from an id and a user_name is encoded by json_encode():
\* neither the construction nor the call raises.
C9_UserJsonEncode ==
    (/\ last.op = "json_encode"
     /\ DOMAIN last.kwargs = {"id", "user_name"})
    => last.result.raised = "none"

\* C10: the list response has the ListResponse URN as its only schema, the
\* given resources in their order, and their number as totalResults.
C10_ListResponseEnvelope ==
    last.op \in {"ListResponse", "systems.ListResponse"}
    => /\ last.list_response.schemas =
              <<"urn:ietf:params:scim:api:messages:2.0:ListResponse">>
       /\ last.list_response.Resources = last.resources
       /\ last.list_response.totalResults = Len(last.resources)
       /\ (last.resources = <<>> => last.list_response.totalResults = 0)

C10_Witness ==
    /\ last.op = "systems.ListResponse"
    /\ last.resources = <<"bob", "alice", "bob">>
    /\ last.list_response.totalResults = 3


\* C11: the meta-schema Schema can be instantiated and serialized with
\* dumps(), and the serialization carries the attribute tree with its names,
\* types and canonical values.
C11_SchemaDumpsRoundTrip ==
    last.op = "Schema.dumps"
    => /\ last.result.raised = "none"
       /\ last.result.made
       /\ last.result.dumped = SCHEMA_ATTRIBUTES


\* The units whose one contract class defines every operation, so that an
\* instance of it can be made
Complete ==
    {n \in Resolvable : \A c \in Conforming(n) : AbstractMethods(c) = {}}

\* C13: a failure of the invoked operation other than NotImplementedError,
\* an AttributeError raised in its body included, reaches the caller as that
\* failure and is not turned into 404.
C13_OtherFailuresPropagate ==
    (/\ Viewed
     /\ last.inst.kind = "class"
     /\ last.called \in DOMAIN last.inst.body
     /\ last.inst.body[last.called] \notin {"payload", "NotImplementedError"})
    => /\ last.status = 500
       /\ last.fault = last.inst.body[last.called]

\* C14: a unit with exactly one class satisfying the contract resolves to an
\* instance of that class, whatever else the unit holds and whatever the
\* names are.
C14_TheOneConformingClassIsUsed ==
    (/\ Viewed
     /\ last.system_name \in Complete)
    => last.inst \in Conforming(last.system_name)

\* C16: a resolution that fails, because the unit does not load or does not
\* hold exactly one contract class, leaves no registry entry for the name.
C16_FailedResolutionNotRegistered ==
    (/\ Viewed
     /\ last.system_name \in get_system_files \ Resolvable
     /\ last.fault # "none"
     /\ exec_count[last.system_name] = 1)
    => sys_modules[last.system_name] = "absent"


\* C18: a request for a name that is not in the catalog changes nothing: no
\* unit is executed, no registry entry is added or replaced and no backend
\* is constructed.
C18_UnknownNameHasNoEffect ==
    [][(/\ last'.op = "request"
        /\ last'.system_name \notin get_system_files)
       => /\ sys_modules' = sys_modules
          /\ exec_count' = exec_count
          /\ ~last'.execd
          /\ last'.inst = None]_vars

C18_Witness ==
    /\ Viewed
    /\ last.system_name = "ghost"
    /\ last.status = 404
    /\ ~last.execd
    /\ sys_modules["full"] = "loaded"
    /\ sys_modules["plain"] = "loaded"


\* Letter case and path separators, stated without str.lower and str.strip
UpperLetters ==
    <<"A", "B", "C", "D", "E", "F", "G", "H", "I", "J", "K", "L", "M",
      "N", "O", "P", "Q", "R", "S", "T", "U", "V", "W", "X", "Y", "Z">>

LowerLetters ==
    <<"a", "b", "c", "d", "e", "f", "g", "h", "i", "j", "k", "l", "m",
      "n", "o", "p", "q", "r", "s", "t", "u", "v", "w", "x", "y", "z">>

SameLetter(a, b) ==
    \/ a = b
    \/ \E i \in 1..Len(UpperLetters) :
          {a, b} = {UpperLetters[i], LowerLetters[i]}

\* s and t differ only in letter case
CaseEq(s, t) ==
    /\ Len(s) = Len(t)
    /\ \A i \in 1..Len(s) : SameLetter(s[i], t[i])

\* What is left of a path once every leading and trailing "/" is removed
Cores(s) ==
    {SubSeq(s, i, j) : <<i, j>> \in
        {p \in (1..Len(s) + 1) \X (0..Len(s)) :
            /\ p[1] <= p[2] + 1
            /\ \A k \in 1..Len(s) : (k < p[1] \/ k > p[2]) => s[k] = "/"
            /\ p[1] <= p[2] => (s[p[1]] # "/" /\ s[p[2]] # "/")}}

\* s and t differ only in letter case or in leading/trailing separators
SameEndpoint(s, t) ==
    \E a \in Cores(s), b \in Cores(t) : CaseEq(a, b)

NoUpper(s) ==
    \A i \in 1..Len(s) : \A k \in 1..Len(UpperLetters) : s[i] # UpperLetters[k]

\* C15: the operation key is the verb in lower case, "_", and the endpoint
\* in lower case without its leading and trailing "/"; two dispatches whose
\* verbs differ only in case and whose endpoints differ only in case or in
\* leading/trailing "/" invoke the same operation; GET with /Users yields
\* get_users.
C15_OperationKeyNormalised ==
    last.op = "dispatch"
    => /\ \E c \in Cores(last.endpoint) :
             /\ Len(last.key) = Len(last.method) + 1 + Len(c)
             /\ CaseEq(SubSeq(last.key, 1, Len(last.method)), last.method)
             /\ last.key[Len(last.method) + 1] = "_"
             /\ CaseEq(SubSeq(last.key, Len(last.method) + 2, Len(last.key)),
                       c)
       /\ NoUpper(last.key)
       /\ (/\ last.prev.seen
           /\ CaseEq(last.prev.method, last.method)
           /\ SameEndpoint(last.prev.endpoint, last.endpoint))
          => /\ last.key = last.prev.key
             /\ last.result = last.prev.result
       /\ (last.method = GET /\ last.endpoint = <<"/","U","s","e","r","s">>)
          => /\ last.key = get_users
             /\ last.result.called = get_users

C15_Witness ==
    /\ last.op = "dispatch"
    /\ last.prev.seen
    /\ last.prev.method = GET
    /\ last.prev.endpoint = <<"/","U","s","e","r","s">>
    /\ last.method # last.prev.method
    /\ last.endpoint # last.prev.endpoint
    /\ Len(last.endpoint) # Len(last.prev.endpoint)
    /\ ~NoUpper(last.endpoint)
    /\ CaseEq(last.prev.method, last.method)
    /\ SameEndpoint(last.prev.endpoint, last.endpoint)
    /\ last.result.raised = "none"
    /\ last.result.called = get_users

\* C17: every row of the contract table is reachable through dispatch: the
\* key derived from the row's verb and endpoint is the name of the row's
\* method, and that method is the one called.
C17_ContractTableReachable ==
    last.op = "dispatch"
    => \A row \in ContractTable :
          (row.verb = last.method /\ row.endpoint = last.endpoint)
          => /\ last.key = row.method
             /\ last.result.called = row.method


\* C12: under every interleaving of two first-use resolutions, a resolution
\* never reads a registry entry whose unit another resolution has
\* registered and not finished loading, and a resolution that found a type
\* found the conforming type of the fully loaded unit.
C12_ResolutionsExclusivePerName ==
    \A t \in Threads :
        threads[t].read.of # 0
        => /\ threads[t].read.stage = "complete"
           /\ threads[t].pc \in {"call", "done"} /\ threads[t].fault = "none"
              => threads[t].target \in Conforming(threads[t].system_name)

====
